---- MODULE Spec2Model ----
(***************************************************************************)
(* The rate engine of custom_components/dominion_energy/rates.py:          *)
(* get_season, calculate_tiered_cost, calculate_consumption_tax and        *)
(* calculate_schedule1_interval_cost, and the caller's loop that threads   *)
(* cumulative usage through them (tests/test_rates.py).                    *)
(*                                                                         *)
(* Numbers.  The code computes in Python floats; the model computes the    *)
(* same expressions exactly, over the rationals, so every statement below  *)
(* is a statement about the arithmetic the code writes down, not about     *)
(* binary rounding (the tests compare with pytest.approx).                 *)
(*   - a kWh quantity q stands for q / KwhDen kWh;                         *)
(*   - a rate r stands for r millionths of a dollar per kWh;               *)
(*   - an amount of money is a mixed number [w, n, d] = w + n/d millionths *)
(*     of a dollar, with d > 0, 0 <= n < d and n/d in lowest terms, so     *)
(*     that equal amounts are equal records.                               *)
(* upper_kwh = float("inf") is the value Inf, with the arithmetic of an    *)
(* infinity (Inf - x = Inf, min(x, Inf) = x, x >= Inf is false).           *)
(***************************************************************************)
EXTENDS Integers, Sequences, FiniteSets

VARIABLES
    pc,             \* which call was made last ("idle" before any), or the loop's position
    args,           \* the arguments of that call
    ret,            \* what it returned
    schedule,       \* caller's loop: the RateSchedule in use
    billing_days,   \* caller's loop: billing_period_days
    kwh_choices,    \* caller's loop: the interval sizes the meter may report
    month_choices,  \* caller's loop: the months the timestamps may lie in
    n_intervals,    \* caller's loop: how many intervals the period has
    done,           \* caller's loop: intervals billed so far
    cumulative,     \* caller's loop: running kWh, passed as cumulative_before
    total_cost,     \* caller's loop: running sum of the returned costs
    charged,        \* history: calls so far with interval_kwh > 0
    seasons         \* history: the seasons of the calls so far

vars == <<pc, args, ret, schedule, billing_days, kwh_choices, month_choices,
          n_intervals, done, cumulative, total_cost, charged, seasons>>

loopvars == <<schedule, billing_days, kwh_choices, month_choices, n_intervals,
              done, cumulative, total_cost, charged, seasons>>

----------------------------------------------------------------------------
(* Bounds of the inputs that are enumerated. *)

\* interval sizes 0..MaxKwh (and -1 for the composer)
MaxKwh == 3
\* cumulative_before 0..MaxCum
MaxCum == 4
\* TieredRate.boundary_kwh 0..MaxBoundary
MaxBoundary == 3
\* tiered rates MinRate..MaxRate
MaxRate == 2
\* tax tier lists of 1..MaxTiers tiers
MaxTiers == 3
\* billing_period_days -1..MaxDays
MaxDays == 2
\* the threaded loop makes up to MaxCalls calls
MaxCalls == 3

MinRate == 0 - 1

----------------------------------------------------------------------------
(* Exact arithmetic on amounts of money. *)

KwhDen == 36

Inf == 2000000000

RECURSIVE GCD(_, _)
GCD(a, b) ==
    IF b = 0 THEN a ELSE GCD(b, a % b)

\* num / den as a mixed number in lowest terms (den # 0).
Frac(num, den) ==
    LET s == IF den < 0 THEN 0 - 1 ELSE 1
        p == s * num
        q == s * den
        r == p % q
        g == GCD(q, r)
    IN  [w |-> p \div q, n |-> r \div g, d |-> q \div g]

Zero ==
    [w |-> 0, n |-> 0, d |-> 1]

Add(x, y) ==
    LET g == GCD(x.d, y.d)
        l == (x.d \div g) * y.d
        t == x.n * (l \div x.d) + y.n * (l \div y.d)
        f == Frac(t, l)
    IN  [w |-> x.w + y.w + f.w, n |-> f.n, d |-> f.d]

Neg(x) ==
    IF x.n = 0 THEN [w |-> 0 - x.w, n |-> 0, d |-> 1]
    ELSE [w |-> 0 - x.w - 1, n |-> x.d - x.n, d |-> x.d]

Sub(x, y) ==
    Add(x, Neg(y))

Abs(x) ==
    IF x.w < 0 THEN Neg(x) ELSE x

Leq(x, y) ==
    x.w < y.w \/ (x.w = y.w /\ x.n * y.d <= y.n * x.d)

\* kwh * rate: q / KwhDen kWh at r millionths of a dollar per kWh.
Times(q, r) ==
    Frac(q * r, KwhDen)

\* actual == pytest.approx(expected, rel = 1 / rel_inv), for expected > 0:
\* |actual - expected| <= expected / rel_inv.
Approx(actual, expected, rel_inv) ==
    Leq(Abs(Sub(actual, Frac(expected, 1))), Frac(expected, rel_inv))

----------------------------------------------------------------------------
(* The data model. *)

SUMMER == "summer"
WINTER == "winter"

TieredRate(b, ru, ro) ==
    [boundary_kwh |-> b, rate_under |-> ru, rate_over |-> ro]

ConsumptionTaxTier(lo, up, r) ==
    [lower_kwh |-> lo, upper_kwh |-> up, rate |-> r]

----------------------------------------------------------------------------
(* The functions. *)

get_season_off_by_one(month) ==
    IF 6 < month /\ month <= 9 THEN SUMMER ELSE WINTER

get_season(month) ==
    IF 6 <= month /\ month <= 9 THEN SUMMER ELSE WINTER

\* The two whole-interval branches bill at the other tier's rate.
calculate_tiered_cost_swapped(interval_kwh, cumulative_before, tiered_rate) ==
    LET boundary == tiered_rate.boundary_kwh
        cumulative_after == cumulative_before + interval_kwh
        kwh_under == boundary - cumulative_before
        kwh_over == interval_kwh - kwh_under
    IN  IF cumulative_after <= boundary
            THEN Times(interval_kwh, tiered_rate.rate_over)
        ELSE IF cumulative_before >= boundary
            THEN Times(interval_kwh, tiered_rate.rate_under)
        ELSE Add(Times(kwh_under, tiered_rate.rate_under),
                 Times(kwh_over, tiered_rate.rate_over))

\* The straddle branch subtracts the wrong way round.
calculate_tiered_cost_sign(interval_kwh, cumulative_before, tiered_rate) ==
    LET boundary == tiered_rate.boundary_kwh
        cumulative_after == cumulative_before + interval_kwh
        kwh_under == cumulative_before - boundary
        kwh_over == interval_kwh - kwh_under
    IN  IF cumulative_after <= boundary
            THEN Times(interval_kwh, tiered_rate.rate_under)
        ELSE IF cumulative_before >= boundary
            THEN Times(interval_kwh, tiered_rate.rate_over)
        ELSE Add(Times(kwh_under, tiered_rate.rate_under),
                 Times(kwh_over, tiered_rate.rate_over))

calculate_tiered_cost(interval_kwh, cumulative_before, tiered_rate) ==
    LET boundary == tiered_rate.boundary_kwh
        cumulative_after == cumulative_before + interval_kwh
        kwh_under == boundary - cumulative_before
        kwh_over == interval_kwh - kwh_under
    IN  IF cumulative_after <= boundary
            THEN Times(interval_kwh, tiered_rate.rate_under)
        ELSE IF cumulative_before >= boundary
            THEN Times(interval_kwh, tiered_rate.rate_over)
        ELSE Add(Times(kwh_under, tiered_rate.rate_under),
                 Times(kwh_over, tiered_rate.rate_over))

(* upper_kwh - position, min(remaining, room), position >= upper_kwh, where
   upper_kwh may be float("inf"). *)
RoomInTier(upper_kwh, position) ==
    IF upper_kwh = Inf THEN Inf ELSE upper_kwh - position

Min(remaining, room) ==
    IF room = Inf THEN remaining
    ELSE IF remaining <= room THEN remaining ELSE room

PastTier(position, upper_kwh) ==
    upper_kwh # Inf /\ position >= upper_kwh

\* The body of `for tier in tax_tiers`, from tier i on.
RECURSIVE tax_loop(_, _, _, _, _)
tax_loop(tax_tiers, i, tax, remaining, position) ==
    IF i > Len(tax_tiers) THEN tax
    ELSE LET tier == tax_tiers[i] IN
        IF remaining <= 0 THEN tax
        ELSE IF PastTier(position, tier.upper_kwh)
            THEN tax_loop(tax_tiers, i + 1, tax, remaining, position)
        ELSE LET pos == IF position < tier.lower_kwh THEN tier.lower_kwh ELSE position
                 room_in_tier == RoomInTier(tier.upper_kwh, pos)
                 kwh_in_tier == Min(remaining, room_in_tier)
             IN  tax_loop(tax_tiers, i + 1,
                          Add(tax, Times(kwh_in_tier, tier.rate)),
                          remaining - kwh_in_tier,
                          pos + kwh_in_tier)

calculate_consumption_tax(interval_kwh, cumulative_before, tax_tiers) ==
    tax_loop(tax_tiers, 1, Zero, interval_kwh, cumulative_before)

\* sum(rider.rate * interval_kwh for rider in schedule.riders)
RECURSIVE rider_sum(_, _, _)
rider_sum(riders, i, interval_kwh) ==
    IF i > Len(riders) THEN Zero
    ELSE Add(Times(interval_kwh, riders[i].rate), rider_sum(riders, i + 1, interval_kwh))

Returned(v) ==
    [raised |-> "", value |-> v]

Raised(e) ==
    [raised |-> e, value |-> Zero]

\* The guard is interval_kwh < 0: a zero interval is billed like any other.
calculate_schedule1_interval_cost_lt(interval_kwh, month, cumulative_before, sched, billing_period_days) ==
    IF interval_kwh < 0 THEN Returned(Zero)
    ELSE
    LET season == get_season(month)
        dist_rate == IF season = SUMMER THEN sched.distribution.summer
                     ELSE sched.distribution.winter
        dist_cost == calculate_tiered_cost(interval_kwh, cumulative_before, dist_rate)
        gen_rate == IF season = SUMMER THEN sched.generation.summer
                    ELSE sched.generation.winter
        gen_cost == calculate_tiered_cost(interval_kwh, cumulative_before, gen_rate)
        trans_cost == Times(interval_kwh, sched.transmission_rate)
        rider_cost == rider_sum(sched.riders, 1, interval_kwh)
        tax_cost == calculate_consumption_tax(interval_kwh, cumulative_before,
                                              sched.consumption_tax_tiers)
        intervals_in_period == 48 * billing_period_days
    IN  IF intervals_in_period = 0 THEN Raised("ZeroDivisionError")
        ELSE Returned(Add(dist_cost, Add(gen_cost, Add(trans_cost, Add(rider_cost,
                Add(tax_cost, Frac(sched.customer_charge, intervals_in_period)))))))

\* interval_dt enters only through interval_dt.month.
calculate_schedule1_interval_cost(interval_kwh, month, cumulative_before, sched, billing_period_days) ==
    IF interval_kwh <= 0 THEN Returned(Zero)
    ELSE
    LET season == get_season(month)
        dist_rate == IF season = SUMMER THEN sched.distribution.summer
                     ELSE sched.distribution.winter
        dist_cost == calculate_tiered_cost(interval_kwh, cumulative_before, dist_rate)
        gen_rate == IF season = SUMMER THEN sched.generation.summer
                    ELSE sched.generation.winter
        gen_cost == calculate_tiered_cost(interval_kwh, cumulative_before, gen_rate)
        trans_cost == Times(interval_kwh, sched.transmission_rate)
        rider_cost == rider_sum(sched.riders, 1, interval_kwh)
        tax_cost == calculate_consumption_tax(interval_kwh, cumulative_before,
                                              sched.consumption_tax_tiers)
        intervals_in_period == 48 * billing_period_days
        customer_charge_per_interval == Frac(sched.customer_charge, intervals_in_period)
    IN  IF intervals_in_period = 0 THEN Raised("ZeroDivisionError")
        ELSE Returned(Add(dist_cost, Add(gen_cost, Add(trans_cost, Add(rider_cost,
                Add(tax_cost, customer_charge_per_interval))))))

----------------------------------------------------------------------------
(* The bundled schedule, in millionths of a dollar and KwhDen-ths of a kWh. *)

Rider(name, rate) ==
    [name |-> name, rate |-> rate]

VA_SCHEDULE_1 ==
    [ name |-> "Schedule 1 - VA Residential",
      effective_date |-> "2026-01-01",
      customer_charge |-> 7580000,
      distribution |->
        [ summer |-> TieredRate(800 * KwhDen, 35690, 23596),
          winter |-> TieredRate(800 * KwhDen, 35690, 23596) ],
      generation |->
        [ summer |-> TieredRate(800 * KwhDen, 31212, 46243),
          winter |-> TieredRate(800 * KwhDen, 30064, 26965) ],
      transmission_rate |-> 9700,
      riders |-> << Rider("C1A", 231), Rider("C4A", 1336), Rider("DIST", 6241),
                    Rider("RBB", 531), Rider("E", 625), Rider("GEN", 7564),
                    Rider("SMR", 287), Rider("SNA", 3475), Rider("CCR", 1765),
                    Rider("CE", 3668), Rider("OSW", 11229), Rider("RPS", 7676),
                    Rider("T1", 11789), Rider("Fuel/A", 29680), Rider("DFCC", 2906),
                    Rider("Sales&Use", 921) >>,
      consumption_tax_tiers |->
        << ConsumptionTaxTier(0, 2500 * KwhDen, 1565),
           ConsumptionTaxTier(2500 * KwhDen, 50000 * KwhDen, 1055),
           ConsumptionTaxTier(50000 * KwhDen, Inf, 845) >> ]

----------------------------------------------------------------------------
(* The inputs that are enumerated. *)

Months == 1..12

Rates ==
    { TieredRate(b, ru, ro) : b \in 0..MaxBoundary,
                              ru \in MinRate..MaxRate, ro \in MinRate..MaxRate }

FirstLowers == {0, 1}
Widths == {1, 2}
TaxRates == {0, 1, 2}

RECURSIVE LowerOf(_, _, _)
LowerOf(first, widths, i) ==
    IF i = 1 THEN first ELSE LowerOf(first, widths, i - 1) + widths[i - 1]

\* The tier list that starts at `first`, whose bounded tiers have the given
\* widths and whose tiers have the given rates: lower_kwh < upper_kwh, each
\* lower bound the previous upper bound, the last upper bound unbounded.
TierList(first, widths, rates) ==
    [ i \in 1..Len(rates) |->
        ConsumptionTaxTier(LowerOf(first, widths, i),
                           IF i = Len(rates) THEN Inf
                           ELSE LowerOf(first, widths, i) + widths[i],
                           rates[i]) ]

TierLists ==
    UNION { { TierList(first, widths, rates) :
                first \in FirstLowers,
                widths \in [1..(n - 1) -> Widths],
                rates \in [1..n -> TaxRates] } : n \in 1..MaxTiers }

SampleTiers ==
    { TierList(0, <<1, 2>>, <<2, 1, 0>>),
      TierList(0, <<2>>, <<1, 3>>),
      TierList(2, <<1>>, <<1, 2>>) }

SampleSchedule(b, cc, tiers) ==
    [ name |-> "sample",
      effective_date |-> "2026-01-01",
      customer_charge |-> cc,
      distribution |-> [ summer |-> TieredRate(b, 2, 1), winter |-> TieredRate(b, 1, 2) ],
      generation |-> [ summer |-> TieredRate(b + 1, 1, 3), winter |-> TieredRate(b + 1, 3, 0) ],
      transmission_rate |-> 1,
      riders |-> << Rider("A", 1), Rider("B", 2) >>,
      consumption_tax_tiers |-> tiers ]

Schedules ==
    { SampleSchedule(b, cc, tiers) :
        b \in 0..MaxBoundary, cc \in {0, 5, 96}, tiers \in SampleTiers }

SummerMonths == 6..9
WinterMonths == Months \ SummerMonths

----------------------------------------------------------------------------
(* Single calls: each behaviour makes one call, on inputs of its choice. *)

NoLoop ==
    /\ schedule = <<>>
    /\ billing_days = 0
    /\ kwh_choices = {}
    /\ month_choices = {}
    /\ n_intervals = 0
    /\ done = 0
    /\ cumulative = 0
    /\ total_cost = Zero
    /\ charged = 0
    /\ seasons = {}

Init ==
    /\ pc = "idle"
    /\ args = <<>>
    /\ ret = <<>>
    /\ NoLoop

GetSeasonCall ==
    /\ pc = "idle"
    /\ \E m \in Months :
            /\ pc' = "get_season"
            /\ args' = [month |-> m]
            /\ ret' = get_season(m)
            /\ UNCHANGED loopvars

TieredCall ==
    /\ pc = "idle"
    /\ \E k \in 0..MaxKwh, c \in 0..MaxCum, r \in Rates :
            /\ pc' = "tiered"
            /\ args' = [interval_kwh |-> k, cumulative_before |-> c, tiered_rate |-> r]
            /\ ret' = calculate_tiered_cost(k, c, r)
            /\ UNCHANGED loopvars

\* One interval billed whole, and billed as two consecutive sub-intervals.
TieredSplit ==
    /\ pc = "idle"
    /\ \E a \in 0..MaxKwh, b \in 0..MaxKwh, c \in 0..MaxCum, r \in Rates :
            /\ pc' = "tiered_split"
            /\ args' = [a |-> a, b |-> b, cumulative_before |-> c, tiered_rate |-> r]
            /\ ret' = [first |-> calculate_tiered_cost(a, c, r),
                       second |-> calculate_tiered_cost(b, c + a, r),
                       whole |-> calculate_tiered_cost(a + b, c, r)]
            /\ UNCHANGED loopvars

TaxCall ==
    /\ pc = "idle"
    /\ \E k \in 0..MaxKwh, c \in 0..MaxCum, t \in TierLists :
            /\ pc' = "tax"
            /\ args' = [interval_kwh |-> k, cumulative_before |-> c, tax_tiers |-> t]
            /\ ret' = calculate_consumption_tax(k, c, t)
            /\ UNCHANGED loopvars

TaxSplit ==
    /\ pc = "idle"
    /\ \E a \in 0..MaxKwh, b \in 0..MaxKwh, c \in 0..MaxCum, t \in TierLists :
            /\ pc' = "tax_split"
            /\ args' = [a |-> a, b |-> b, cumulative_before |-> c, tax_tiers |-> t]
            /\ ret' = [first |-> calculate_consumption_tax(a, c, t),
                       second |-> calculate_consumption_tax(b, c + a, t),
                       whole |-> calculate_consumption_tax(a + b, c, t)]
            /\ UNCHANGED loopvars

\* The same interval through both apportioners, the tax one on the two
\* brackets [0, boundary) and [boundary, inf) of the tiered rate.
TaxAsTiered ==
    /\ pc = "idle"
    /\ \E k \in 0..MaxKwh, c \in 0..MaxCum, r \in Rates :
            /\ r.boundary_kwh > 0
            /\ pc' = "tax_as_tiered"
            /\ args' = [interval_kwh |-> k, cumulative_before |-> c, tiered_rate |-> r]
            /\ ret' = [tiered |-> calculate_tiered_cost(k, c, r),
                       tax |-> calculate_consumption_tax(k, c,
                                  << ConsumptionTaxTier(0, r.boundary_kwh, r.rate_under),
                                     ConsumptionTaxTier(r.boundary_kwh, Inf, r.rate_over) >>)]
            /\ UNCHANGED loopvars

IntervalCall ==
    /\ pc = "idle"
    /\ \E k \in (0 - 1)..MaxKwh, m \in Months, c \in 0..MaxCum, s \in Schedules,
           days \in (0 - 1)..MaxDays :
            /\ pc' = "interval"
            /\ args' = [interval_kwh |-> k, month |-> m, cumulative_before |-> c,
                        schedule |-> s, billing_period_days |-> days]
            /\ ret' = calculate_schedule1_interval_cost(k, m, c, s, days)
            /\ UNCHANGED loopvars

Next ==
    \/ GetSeasonCall
    \/ TieredCall
    \/ TieredSplit
    \/ TaxCall
    \/ TaxSplit
    \/ TaxAsTiered
    \/ IntervalCall

Spec == Init /\ [][Next]_vars

----------------------------------------------------------------------------
(* The caller's loop: one call per interval, cumulative usage threaded. *)

LoopStep ==
    /\ pc = "loop"
    /\ done < n_intervals
    /\ \E k \in kwh_choices, m \in month_choices :
        LET cost == calculate_schedule1_interval_cost(k, m, cumulative, schedule,
                                                      billing_days)
        IN  IF cost.raised # ""
            THEN /\ pc' = "raised"
                 /\ UNCHANGED <<done, cumulative, total_cost, charged, seasons>>
            ELSE /\ total_cost' = Add(total_cost, cost.value)
                 /\ cumulative' = cumulative + k
                 /\ done' = done + 1
                 /\ charged' = IF k > 0 THEN charged + 1 ELSE charged
                 /\ seasons' = seasons \cup {get_season(m)}
                 /\ pc' = IF done + 1 = n_intervals THEN "done" ELSE "loop"
    /\ UNCHANGED <<args, ret, schedule, billing_days, kwh_choices,
                   month_choices, n_intervals>>

LoopStart ==
    /\ pc = "loop"
    /\ args = <<>>
    /\ ret = <<>>
    /\ done = 0
    /\ cumulative = 0
    /\ total_cost = Zero
    /\ charged = 0
    /\ seasons = {}

\* Any sample schedule, any interval sizes, months of one season or of both.
InitThreaded ==
    /\ LoopStart
    /\ schedule \in Schedules
    /\ billing_days \in 1..MaxDays
    /\ kwh_choices = 0..MaxKwh
    /\ month_choices \in {SummerMonths, WinterMonths, Months}
    /\ n_intervals = MaxCalls

SpecThreaded == InitThreaded /\ [][LoopStep]_vars

\* test_full_month_summer_1000kwh: 30 days of 48 intervals of 1000/1440 kWh, in July.
InitBill ==
    /\ LoopStart
    /\ schedule = VA_SCHEDULE_1
    /\ billing_days = 30
    /\ kwh_choices = {(1000 * KwhDen) \div (48 * 30)}
    /\ month_choices = {7}
    /\ n_intervals = 48 * 30

SpecBill == InitBill /\ [][LoopStep]_vars

----------------------------------------------------------------------------
(* The claims. *)

\* C1. Additivity of calculate_tiered_cost: for boundary_kwh >= 0,
\* cumulative_before c >= 0 and sub-intervals a >= 0, b >= 0, the cost of a
\* from c plus the cost of b from c + a equals the cost of a + b from c,
\* whichever branch each of the three calls takes.
C1_TieredAdditivity ==
    pc = "tiered_split" => Add(ret.first, ret.second) = ret.whole

\* The first part stays under the boundary, the second and the whole straddle it.
C1_Witness ==
    /\ pc = "tiered_split"
    /\ args.a > 0
    /\ args.cumulative_before + args.a < args.tiered_rate.boundary_kwh
    /\ args.cumulative_before + args.a + args.b > args.tiered_rate.boundary_kwh
    /\ args.tiered_rate.rate_under # args.tiered_rate.rate_over
    /\ ret.whole # Times(args.a + args.b, args.tiered_rate.rate_under)
    /\ Add(ret.first, ret.second) = ret.whole

\* Sum over the tiers of rate times the length of the overlap of the usage
\* range [c, c + k) with the tier's range [lower_kwh, upper_kwh).
RECURSIVE OverlapTax(_, _, _, _)
OverlapTax(k, c, tiers, i) ==
    IF i > Len(tiers) THEN Zero
    ELSE LET lo == IF c > tiers[i].lower_kwh THEN c ELSE tiers[i].lower_kwh
             hi == IF tiers[i].upper_kwh = Inf \/ c + k < tiers[i].upper_kwh
                   THEN c + k ELSE tiers[i].upper_kwh
             len == IF hi > lo THEN hi - lo ELSE 0
         IN  Add(Times(len, tiers[i].rate), OverlapTax(k, c, tiers, i + 1))

\* C2. Additivity of calculate_consumption_tax: for every tier list with
\* lower_kwh < upper_kwh, sorted, contiguous and unbounded at the end, every
\* cumulative_before c >= 0 and a, b >= 0, the tax of a from c plus the tax of
\* b from c + a equals the tax of a + b from c.
C2_TaxAdditivity ==
    pc = "tax_split" => Add(ret.first, ret.second) = ret.whole

\* C3. Boundary tie-break of calculate_tiered_cost: for x > 0 and
\* rate_under # rate_over, an interval that ends exactly on the boundary costs
\* x * rate_under, and one that starts exactly at the boundary costs x * rate_over.
C3_TieBreak ==
    (pc = "tiered" /\ args.interval_kwh > 0
        /\ args.tiered_rate.rate_under # args.tiered_rate.rate_over)
    => /\ (args.cumulative_before + args.interval_kwh = args.tiered_rate.boundary_kwh
            => ret = Times(args.interval_kwh, args.tiered_rate.rate_under))
       /\ (args.cumulative_before = args.tiered_rate.boundary_kwh
            => ret = Times(args.interval_kwh, args.tiered_rate.rate_over))

\* An interval from below that ends exactly on the boundary, billed under.
C3_Witness ==
    /\ pc = "tiered"
    /\ args.interval_kwh > 0
    /\ args.cumulative_before > 0
    /\ args.cumulative_before + args.interval_kwh = args.tiered_rate.boundary_kwh
    /\ ret = Times(args.interval_kwh, args.tiered_rate.rate_under)
    /\ ret # Times(args.interval_kwh, args.tiered_rate.rate_over)

\* C4. calculate_schedule1_interval_cost returns exactly 0 whenever
\* interval_kwh <= 0, for any month, cumulative_before, schedule and
\* billing_period_days, 0 and negative included: no division by zero is
\* reached and no fraction of the customer charge is billed.
C4_ZeroUsage ==
    (pc = "interval" /\ args.interval_kwh <= 0) => ret = Returned(Zero)

\* A zero interval with billing_period_days = 0 and a customer charge to bill.
C4_Witness ==
    /\ pc = "interval"
    /\ args.interval_kwh = 0
    /\ args.billing_period_days = 0
    /\ args.schedule.customer_charge > 0
    /\ ret = Returned(Zero)

\* C5. With VA_SCHEDULE_1, 1440 calls of 1000/1440 kWh each in July with
\* billing_period_days = 30 and cumulative_before threaded from 0, the
\* returned costs sum to $176.2584 within 0.1% relative tolerance.
C5_FullMonthSummer ==
    pc = "done" => Approx(total_cost, 176258400, 1000)

\* The loop has run all 1440 intervals and 1000 kWh, past the 800 kWh boundary.
C5_Witness ==
    /\ pc = "done"
    /\ done = 1440
    /\ charged = 1440
    /\ cumulative = 1000 * KwhDen
    /\ cumulative > schedule.distribution.summer.boundary_kwh
    /\ seasons = {SUMMER}

\* C6, as stated. calculate_tiered_cost returns a cost >= 0 for all
\* interval_kwh >= 0, cumulative_before >= 0 and every TieredRate with
\* boundary_kwh >= 0.
C6_NonNegative_AnyRate ==
    pc = "tiered" => ret.w >= 0

\* C6, amended. The same for every TieredRate with boundary_kwh >= 0 whose
\* rate_under and rate_over are >= 0.
C6_NonNegative ==
    (pc = "tiered" /\ args.tiered_rate.rate_under >= 0
        /\ args.tiered_rate.rate_over >= 0)
    => ret.w >= 0

\* The straddle branch, with a positive cost on both sides of the boundary.
C6_Witness ==
    /\ pc = "tiered"
    /\ args.cumulative_before < args.tiered_rate.boundary_kwh
    /\ args.cumulative_before + args.interval_kwh > args.tiered_rate.boundary_kwh
    /\ args.tiered_rate.rate_under > 0
    /\ args.tiered_rate.rate_over > 0
    /\ Leq(Frac(1, KwhDen), ret)

\* C7. get_season is total on months 1..12: SUMMER exactly for 6 <= m <= 9,
\* WINTER for every other month (1-5 and 10-12).
C7_Season ==
    pc = "get_season" =>
        /\ (args.month \in {6, 7, 8, 9} => ret = SUMMER)
        /\ (args.month \in {1, 2, 3, 4, 5, 10, 11, 12} => ret = WINTER)

\* June, the first summer month.
C7_Witness ==
    pc = "get_season" /\ args.month = 6 /\ ret = SUMMER

\* C8. calculate_consumption_tax apportions an interval across any number of
\* brackets: for every tier list with lower_kwh < upper_kwh, sorted,
\* contiguous and unbounded at the end, the tax equals the sum over the tiers
\* of rate times the overlap of [c, c + k) with [lower_kwh, upper_kwh).
C8_TaxIsOverlap ==
    pc = "tax" =>
        ret = OverlapTax(args.interval_kwh, args.cumulative_before, args.tax_tiers, 1)

\* C9. On the two brackets [0, b) at rate_under and [b, inf) at rate_over,
\* b > 0, calculate_consumption_tax returns what calculate_tiered_cost returns
\* with that TieredRate, also when the interval ends on b or starts at b.
C9_TaxGeneralizesTiered ==
    pc = "tax_as_tiered" => ret.tax = ret.tiered

\* An interval that straddles b, with different rates on the two sides.
C9_Witness ==
    /\ pc = "tax_as_tiered"
    /\ args.cumulative_before < args.tiered_rate.boundary_kwh
    /\ args.cumulative_before + args.interval_kwh > args.tiered_rate.boundary_kwh
    /\ args.tiered_rate.rate_under # args.tiered_rate.rate_over
    /\ ret.tax = ret.tiered
    /\ ret.tax # Times(args.interval_kwh, args.tiered_rate.rate_under)
    /\ ret.tax # Times(args.interval_kwh, args.tiered_rate.rate_over)

RECURSIVE RiderRates(_, _)
RiderRates(riders, i) ==
    IF i > Len(riders) THEN 0 ELSE riders[i].rate + RiderRates(riders, i + 1)

\* The usage U billed in one piece from cumulative 0, without customer charge.
OnePiece(U, sched, season) ==
    LET dist == IF season = SUMMER THEN sched.distribution.summer
                ELSE sched.distribution.winter
        gen == IF season = SUMMER THEN sched.generation.summer
               ELSE sched.generation.winter
    IN  Add(calculate_tiered_cost(U, 0, dist),
        Add(calculate_tiered_cost(U, 0, gen),
        Add(Times(U, sched.transmission_rate),
        Add(Times(U, RiderRates(sched.riders, 1)),
            calculate_consumption_tax(U, 0, sched.consumption_tax_tiers)))))

\* C10. Threaded accumulation: over calls with one schedule, one season,
\* billing_period_days > 0, interval_kwh >= 0 and cumulative_before the running
\* sum from 0, the returned costs sum to the cost of the total usage U billed
\* in one piece from 0 plus P * customer_charge / (48 * billing_period_days),
\* P the number of calls with interval_kwh > 0.
C10_ThreadedAccumulation ==
    (pc \in {"loop", "done"} /\ billing_days > 0)
    => \A season \in {SUMMER, WINTER} :
        seasons \subseteq {season} =>
            total_cost = Add(OnePiece(cumulative, schedule, season),
                             Frac(charged * schedule.customer_charge, 48 * billing_days))

====
